---- MODULE Spec2Model ----
(***************************************************************************)
(* The OpenReview crawler of crawl.py as a state machine: client           *)
(* negotiation (get_openreview_client), invitation-pattern probing, the    *)
(* per-paper loop of crawl_iclr_papers_and_reviews with its note           *)
(* classification, the accepted-only filter (is_accepted_paper) and the    *)
(* rate-limiting delay; and the logging set-up of src/utils/logger.py.     *)
(*                                                                         *)
(* Text is a sequence of one-character strings, so that lower-casing and   *)
(* substring search are computed, not assumed.  A Python value is a record *)
(* [k, v]: k = "none" is None, "scalar" the string v, "env" the mapping    *)
(* {'value': v}, "env2" the mapping {'value': {'value': v}} and "dict" the *)
(* empty mapping {}.                                                       *)
(***************************************************************************)
EXTENDS Integers, Sequences, FiniteSets, TLC

VARIABLES
    pc,             \* position in crawl_iclr_papers_and_reviews / the function called
    accepted_only,  \* argument of crawl_iclr_papers_and_reviews
    api_version,    \* 'v2' or 'v1' once a client is obtained
    p,              \* index of the pattern the probing loop is at
    submissions,    \* crawl.py:94
    used_pattern,   \* crawl.py:95
    i,              \* enumerate index of the paper loop, crawl.py:126
    paper_data,     \* crawl.py:140
    notes,          \* crawl.py:156/158
    n,              \* index of the note the inner loop is at, crawl.py:165
    reviews,        \* crawl.py:160
    comments,       \* crawl.py:161
    meta_reviews,   \* crawl.py:162
    decision,       \* crawl.py:163
    all_data,       \* crawl.py:124
    result,         \* the value the crawl returned
    calls,          \* history: the calls made to the platform and to time.sleep
    outcome,        \* history: how the try block of each paper so far ended
    resolved,       \* history: each paper's record as the filter saw it
    arg,            \* argument of a directly called pure function
    ret,            \* its return value
    handlers,       \* logger.py: the handler list of the 'openreview_crawler' logger
    logger_level,   \* logger.py: the level of that logger
    last_setup,     \* history: the flags of the latest setup_logging call
    last_level,     \* history: the level name the latest set_level call was given
    emitted         \* history: the latest log record and the handlers that wrote it

vars == <<pc, accepted_only, api_version, p, submissions, used_pattern, i,
          paper_data, notes, n, reviews, comments, meta_reviews, decision,
          all_data, result, calls, outcome, resolved, arg, ret,
          handlers, logger_level, last_setup, last_level, emitted>>

logVars == <<handlers, logger_level, last_setup, last_level, emitted>>

crawlVars == <<accepted_only, api_version, p, submissions, used_pattern, i,
               paper_data, notes, n, reviews, comments, meta_reviews, decision,
               all_data, result, calls, outcome, resolved>>

(***************************************************************************)
(* Bounds of the model.                                                    *)
(***************************************************************************)
MaxSubs == 2
MaxNotes == 2
MaxWords == 3

(***************************************************************************)
(* Python values and text.                                                 *)
(***************************************************************************)
None == [k |-> "none", v |-> <<>>]
Scalar(s) == [k |-> "scalar", v |-> s]
Env(s) == [k |-> "env", v |-> s]
Env2(s) == [k |-> "env2", v |-> s]
EmptyDict == [k |-> "dict", v |-> <<>>]
EmptyStr == Scalar(<<>>)

\* isinstance(val, dict)
IsDict(val) == val.k \in {"env", "env2", "dict"}

\* 'value' in val, for a mapping val
HasValueKey(val) == val.k \in {"env", "env2"}

\* val['value'], for a mapping val that has the key
ValueOf(val) == IF val.k = "env2" THEN Env(val.v) ELSE Scalar(val.v)

\* Python truth of a value: None, '' and {} are false
Truthy(val) ==
    CASE val.k = "none" -> FALSE
      [] val.k = "scalar" -> val.v # <<>>
      [] val.k = "dict" -> FALSE
      [] OTHER -> TRUE

\* str(val)
PyStr(val) ==
    CASE val.k = "none" -> <<"N", "o", "n", "e">>
      [] val.k = "scalar" -> val.v
      [] val.k = "dict" -> <<"{", "}">>
      [] val.k = "env" ->
            <<"{", "'", "v", "a", "l", "u", "e", "'", ":", " ", "'">> \o val.v \o <<"'", "}">>
      [] OTHER ->
            <<"{", "'", "v", "a", "l", "u", "e", "'", ":", " ",
              "{", "'", "v", "a", "l", "u", "e", "'", ":", " ", "'">> \o val.v
                \o <<"'", "}", "}">>

\* str.lower() on one character
LowerChar(c) ==
    CASE c = "A" -> "a" [] c = "B" -> "b" [] c = "C" -> "c" [] c = "D" -> "d"
      [] c = "E" -> "e" [] c = "F" -> "f" [] c = "G" -> "g" [] c = "H" -> "h"
      [] c = "I" -> "i" [] c = "J" -> "j" [] c = "K" -> "k" [] c = "L" -> "l"
      [] c = "M" -> "m" [] c = "N" -> "n" [] c = "O" -> "o" [] c = "P" -> "p"
      [] c = "Q" -> "q" [] c = "R" -> "r" [] c = "S" -> "s" [] c = "T" -> "t"
      [] c = "U" -> "u" [] c = "V" -> "v" [] c = "W" -> "w" [] c = "X" -> "x"
      [] c = "Y" -> "y" [] c = "Z" -> "z" [] OTHER -> c

\* str.lower()
Lower(s) == [j \in 1..Len(s) |-> LowerChar(s[j])]

\* the Python test `word in text` on strings
Contains(word, text) ==
    \E j \in 1..(Len(text) - Len(word) + 1) : SubSeq(text, j, j + Len(word) - 1) = word

(***************************************************************************)
(* is_accepted_paper, crawl.py:40-75.                                      *)
(***************************************************************************)
accepted_keywords ==
    << <<"a", "c", "c", "e", "p", "t">>,
       <<"o", "r", "a", "l">>,
       <<"p", "o", "s", "t", "e", "r">>,
       <<"s", "p", "o", "t", "l", "i", "g", "h", "t">>,
       <<"n", "o", "t", "a", "b", "l", "e">>,
       <<"t", "o", "p">>,
       <<"b", "e", "s", "t">> >>

rejected_keywords ==
    << <<"r", "e", "j", "e", "c", "t">>,
       <<"d", "e", "s", "k", " ", "r", "e", "j", "e", "c", "t">>,
       <<"w", "i", "t", "h", "d", "r", "a", "w">> >>

\* `for word in words: if word in text: return ...` reaches its return
AnyWordIn(words, text) == \E j \in 1..Len(words) : Contains(words[j], text)

\* is_accepted_paper without its rejection check
AcceptFirst(d) ==
    IF ~Truthy(d) THEN FALSE
    ELSE LET decision_lower == Lower(PyStr(d)) IN
         IF AnyWordIn(accepted_keywords, decision_lower) THEN TRUE
         ELSE FALSE

is_accepted_paper(d) ==
    IF ~Truthy(d) THEN FALSE
    ELSE LET decision_lower == Lower(PyStr(d)) IN
         IF AnyWordIn(rejected_keywords, decision_lower) THEN FALSE
         ELSE IF AnyWordIn(accepted_keywords, decision_lower) THEN TRUE
         ELSE FALSE

(***************************************************************************)
(* Notes and their classification, crawl.py:165-225.  A note is a record   *)
(* [id, hasInvitation, invitation, malformed, content]: content is a       *)
(* mapping from field name to value, and malformed says that the content   *)
(* attribute is not a mapping at all (None).                               *)
(***************************************************************************)
NoContent == [key \in {} |-> None]

\* content_dict.get(key, default)
Get(content, key, default) == IF key \in DOMAIN content THEN content[key] ELSE default

\* note.invitation if hasattr(note, 'invitation') else '', crawl.py:170
Invitation(note) == IF note.hasInvitation THEN note.invitation ELSE ""

\* extract_content unwrapping every level of envelope
ExtractDeep(note) ==
    [key \in DOMAIN note.content |->
        IF IsDict(note.content[key]) /\ HasValueKey(note.content[key])
        THEN Scalar(note.content[key].v)
        ELSE note.content[key]]

\* crawl.py:178-185
extract_content(note) ==
    [key \in DOMAIN note.content |->
        IF IsDict(note.content[key]) /\ HasValueKey(note.content[key])
        THEN ValueOf(note.content[key])
        ELSE note.content[key]]

\* any(key in note_content for key in keys)
AnyKeyIn(note_content, keys) == \E j \in 1..Len(keys) : keys[j] \in DOMAIN note_content

\* crawl.py:192-206
review_data(note, note_content) ==
    [review_id |-> note.id,
     invitation |-> Invitation(note),
     rating |-> Get(note_content, "rating", Get(note_content, "recommendation", EmptyStr)),
     confidence |-> Get(note_content, "confidence", EmptyStr),
     summary |-> Get(note_content, "summary", EmptyStr),
     soundness |-> Get(note_content, "soundness", EmptyStr),
     presentation |-> Get(note_content, "presentation", EmptyStr),
     contribution |-> Get(note_content, "contribution", EmptyStr),
     strengths |-> Get(note_content, "strengths", EmptyStr),
     weaknesses |-> Get(note_content, "weaknesses", EmptyStr),
     questions |-> Get(note_content, "questions", EmptyStr),
     limitations |-> Get(note_content, "limitations", EmptyStr),
     review_text |-> Get(note_content, "review", EmptyStr)]

\* crawl.py:211-216
meta_review_data(note, note_content) ==
    [id |-> note.id,
     decision |-> Get(note_content, "decision", Get(note_content, "recommendation", EmptyStr)),
     content |-> note_content]

\* crawl.py:220-225
comment_data(note, note_content) ==
    [note_id |-> note.id,
     invitation |-> Invitation(note),
     comment |-> Get(note_content, "comment", Get(note_content, "rebuttal", EmptyStr)),
     content |-> note_content]

\* The accumulators of one paper's try block, crawl.py:160-163
EmptyAcc == [reviews |-> <<>>, comments |-> <<>>, meta_reviews |-> <<>>, decision |-> None]

\* Categorize with the meta-review test ahead of the review test
CategorizeMetaFirst(acc, note) ==
    LET note_content == extract_content(note) IN
    IF AnyKeyIn(note_content, <<"decision", "recommendation">>)
       /\ "rating" \notin DOMAIN note_content
    THEN [acc EXCEPT !.decision = meta_review_data(note, note_content).decision,
                     !.meta_reviews = Append(@, meta_review_data(note, note_content))]
    ELSE IF AnyKeyIn(note_content, <<"rating", "confidence", "review", "recommendation">>)
    THEN [acc EXCEPT !.reviews = Append(@, review_data(note, note_content))]
    ELSE IF AnyKeyIn(note_content, <<"comment", "rebuttal">>)
    THEN [acc EXCEPT !.comments = Append(@, comment_data(note, note_content))]
    ELSE acc

\* Categorize where the first meta-review keeps the decision
CategorizeFirstDecision(acc, note) ==
    LET note_content == extract_content(note) IN
    IF AnyKeyIn(note_content, <<"rating", "confidence", "review", "recommendation">>)
    THEN [acc EXCEPT !.reviews = Append(@, review_data(note, note_content))]
    ELSE IF AnyKeyIn(note_content, <<"decision", "recommendation">>)
            /\ "rating" \notin DOMAIN note_content
    THEN [acc EXCEPT !.decision = IF acc.meta_reviews = <<>>
                                  THEN meta_review_data(note, note_content).decision
                                  ELSE @,
                     !.meta_reviews = Append(@, meta_review_data(note, note_content))]
    ELSE IF AnyKeyIn(note_content, <<"comment", "rebuttal">>)
    THEN [acc EXCEPT !.comments = Append(@, comment_data(note, note_content))]
    ELSE acc

\* Categorize whose review test looks at rating, confidence and review only
CategorizeNarrowReview(acc, note) ==
    LET note_content == extract_content(note) IN
    IF AnyKeyIn(note_content, <<"rating", "confidence", "review">>)
    THEN [acc EXCEPT !.reviews = Append(@, review_data(note, note_content))]
    ELSE IF AnyKeyIn(note_content, <<"decision", "recommendation">>)
            /\ "rating" \notin DOMAIN note_content
    THEN [acc EXCEPT !.decision = meta_review_data(note, note_content).decision,
                     !.meta_reviews = Append(@, meta_review_data(note, note_content))]
    ELSE IF AnyKeyIn(note_content, <<"comment", "rebuttal">>)
    THEN [acc EXCEPT !.comments = Append(@, comment_data(note, note_content))]
    ELSE acc

\* The if/elif chain of crawl.py:191-225 applied to one well-formed note
Categorize(acc, note) ==
    LET note_content == extract_content(note) IN
    IF AnyKeyIn(note_content, <<"rating", "confidence", "review", "recommendation">>)
    THEN [acc EXCEPT !.reviews = Append(@, review_data(note, note_content))]
    ELSE IF AnyKeyIn(note_content, <<"decision", "recommendation">>)
            /\ "rating" \notin DOMAIN note_content
    THEN [acc EXCEPT !.decision = meta_review_data(note, note_content).decision,
                     !.meta_reviews = Append(@, meta_review_data(note, note_content))]
    ELSE IF AnyKeyIn(note_content, <<"comment", "rebuttal">>)
    THEN [acc EXCEPT !.comments = Append(@, comment_data(note, note_content))]
    ELSE acc

(***************************************************************************)
(* Submissions and the paper record, crawl.py:126-152.  A submission is a  *)
(* record [id, hasForum, forum, malformed, content]; malformed says that   *)
(* its content attribute is not a mapping.                                 *)
(***************************************************************************)
NoTitle == <<"N", "o", " ", "t", "i", "t", "l", "e">>

\* paper.forum if hasattr(paper, 'forum') else paper.id
ForumId(paper) == IF paper.hasForum THEN paper.forum ELSE paper.id

\* crawl.py:127-129 and the str(title) of line 143
Title(paper) ==
    LET title == Get(paper.content, "title", EmptyDict) IN
    IF IsDict(title)
    THEN (IF HasValueKey(title) THEN Scalar(PyStr(ValueOf(title))) ELSE Scalar(NoTitle))
    ELSE Scalar(PyStr(title))

\* crawl.py:134-138
get_value(content_dict, key) ==
    LET val == Get(content_dict, key, EmptyStr) IN
    IF IsDict(val)
    THEN (IF HasValueKey(val) THEN ValueOf(val) ELSE EmptyStr)
    ELSE val

\* crawl.py:140-149
PaperData(paper) ==
    [paper_id |-> paper.id,
     forum_id |-> ForumId(paper),
     title |-> Title(paper),
     abstract |-> get_value(paper.content, "abstract"),
     authors |-> get_value(paper.content, "authors"),
     keywords |-> get_value(paper.content, "keywords"),
     pdf_url |-> "https://openreview.net/pdf?id=" \o ForumId(paper),
     forum_url |-> "https://openreview.net/forum?id=" \o ForumId(paper)]

\* crawl.py:227-231
WithResults(data, acc) ==
    [reviews |-> acc.reviews,
     num_reviews |-> Len(acc.reviews),
     meta_reviews |-> acc.meta_reviews,
     decision |-> acc.decision,
     comments |-> acc.comments] @@ data

\* WithDefaults leaving the decision variable of the loop in the record
WithStaleDecision(data) ==
    [reviews |-> <<>>,
     num_reviews |-> 0,
     meta_reviews |-> <<>>,
     decision |-> decision,
     comments |-> <<>>] @@ data

\* crawl.py:237-241
WithDefaults(data) ==
    [reviews |-> <<>>,
     num_reviews |-> 0,
     meta_reviews |-> <<>>,
     decision |-> None,
     comments |-> <<>>] @@ data

(***************************************************************************)
(* The platform: what the notes source may answer.                         *)
(***************************************************************************)
Year == "2024"

\* crawl.py:89-92
patterns ==
    << "ICLR.cc/" \o Year \o "/Conference/-/Submission",
       "ICLR.cc/" \o Year \o "/Conference/-/Blind_Submission" >>

PaperIds == <<"p1", "p2", "p3", "p4">>
ForumIds == <<"f1", "f2", "f3", "f4">>
NoteIds == <<"n1", "n2", "n3", "n4">>

tTitle == <<"T">>
tAbstract == <<"A", "b", "s">>
tAcceptPoster == <<"A", "c", "c", "e", "p", "t", " ", "(", "P", "o", "s", "t", "e", "r", ")">>
tAcceptOral == <<"A", "c", "c", "e", "p", "t", " ", "(", "O", "r", "a", "l", ")">>
tReject == <<"R", "e", "j", "e", "c", "t">>
tEight == <<"8">>
tFour == <<"4">>
tGood == <<"g", "o", "o", "d">>
tThanks == <<"t", "h", "a", "n", "k", "s">>

\* The shapes of submission the platform may return: a newer-generation
\* record (enveloped content, forum attribute), an older-generation one (flat
\* content, no title, no forum attribute), and one whose content is no mapping.
SubmissionShapes == {"v2", "v1", "malformed"}

Submission(shape, j) ==
    [id |-> PaperIds[j],
     hasForum |-> shape = "v2",
     forum |-> IF shape = "v2" THEN ForumIds[j] ELSE "",
     malformed |-> shape = "malformed",
     content |-> CASE shape = "v2" -> [title |-> Env(tTitle), abstract |-> Env(tAbstract)]
                   [] shape = "v1" -> [abstract |-> Scalar(tAbstract)]
                   [] OTHER -> NoContent]

\* sequences of length 1..len over the set S
SeqsUpTo(S, len) == UNION {[1..m -> S] : m \in 1..len}

SubmissionLists(shapes, len) ==
    {[j \in 1..Len(sh) |-> Submission(sh[j], j)] : sh \in SeqsUpTo(shapes, len)}

\* The shapes of note a forum may hold
ShapeContent(shape) ==
    CASE shape = "review" ->
            [rating |-> Env(tEight), confidence |-> Scalar(tFour), review |-> Scalar(tGood)]
      [] shape = "own" -> [title |-> Env(tTitle), rating |-> Scalar(tEight)]
      [] shape = "accept" -> [decision |-> Env(tAcceptPoster)]
      [] shape = "reject" -> [decision |-> Scalar(tReject), comment |-> Scalar(tThanks)]
      [] shape = "comment" -> [comment |-> Scalar(tThanks)]
      [] shape = "rebuttal" -> [rebuttal |-> Env2(tThanks)]
      [] shape = "rated_decision" -> [decision |-> Scalar(tAcceptOral), rating |-> Scalar(tEight)]
      [] shape = "recommendation" -> [recommendation |-> Scalar(tAcceptOral)]
      [] shape = "other" -> [title |-> Scalar(tTitle)]
      [] OTHER -> NoContent

MkNote(shape, j, paper_id) ==
    [id |-> IF shape = "own" THEN paper_id ELSE NoteIds[j],
     hasInvitation |-> shape \in {"review", "reject", "comment"},
     invitation |-> IF shape \in {"review", "reject", "comment"} THEN "Official_" \o shape ELSE "",
     malformed |-> shape = "malformed",
     content |-> ShapeContent(shape)]

MkNotes(shapes, paper_id) == [j \in 1..Len(shapes) |-> MkNote(shapes[j], j, paper_id)]

\* Forums of the whole-crawl specification: at most one note each
CrawlForums == {<<>>} \cup SeqsUpTo({"accept", "reject", "review", "malformed"}, 1)

\* Forums of the single-paper specification: every sequence of shapes
ForumShapes ==
    {"review", "own", "accept", "reject", "comment", "rebuttal", "rated_decision",
     "recommendation", "other", "malformed"}

AllForums == {<<>>} \cup SeqsUpTo(ForumShapes, MaxNotes)

\* A call as the history keeps it: ok says that it returned normally, answer
\* is the collection an invitation fetch returned
Call(op, a, ok, answer) == [op |-> op, arg |-> a, ok |-> ok, answer |-> answer]

(***************************************************************************)
(* get_openreview_client, crawl.py:13-37: v2ok and v1ok say whether the    *)
(* construction of the newer and of the older client succeeds.             *)
(***************************************************************************)
\* get_openreview_client with the older generation attempted first
ClientV1First(v2ok, v1ok) ==
    IF v1ok
    THEN [raised |-> FALSE, api_version |-> "v1", calls |-> <<Call("client", "v1", TRUE, <<>>)>>]
    ELSE [raised |-> ~v2ok, api_version |-> IF v2ok THEN "v2" ELSE "",
          calls |-> <<Call("client", "v1", FALSE, <<>>), Call("client", "v2", v2ok, <<>>)>>]

get_openreview_client(v2ok, v1ok) ==
    IF v2ok
    THEN [raised |-> FALSE, api_version |-> "v2", calls |-> <<Call("client", "v2", TRUE, <<>>)>>]
    ELSE [raised |-> ~v1ok, api_version |-> IF v1ok THEN "v1" ELSE "",
          calls |-> <<Call("client", "v2", FALSE, <<>>), Call("client", "v1", v1ok, <<>>)>>]

(***************************************************************************)
(* crawl_iclr_papers_and_reviews, crawl.py:78-261.                         *)
(***************************************************************************)
NoData == [key \in {} |-> None]

InitCrawl ==
    /\ api_version = ""
    /\ p = 1
    /\ submissions = <<>>
    /\ used_pattern = ""
    /\ i = 0
    /\ paper_data = NoData
    /\ notes = <<>>
    /\ n = 0
    /\ reviews = <<>>
    /\ comments = <<>>
    /\ meta_reviews = <<>>
    /\ decision = None
    /\ all_data = <<>>
    /\ result = <<>>
    /\ calls = <<>>
    /\ outcome = <<>>
    /\ resolved = <<>>

\* the logging module's state before logger.py is imported: crawl.py does
\* not import it
NoLogging ==
    /\ handlers = <<>>
    /\ logger_level = 0
    /\ last_setup = [log_to_file |-> FALSE, log_to_console |-> FALSE]
    /\ last_level = ""
    /\ emitted = [level |-> "", classes |-> {}]

Init ==
    /\ pc = "start"
    /\ accepted_only \in BOOLEAN
    /\ InitCrawl
    /\ arg = None
    /\ ret = None
    /\ NoLogging

\* crawl.py:86
Negotiate ==
    /\ pc = "start"
    /\ \E v2ok \in BOOLEAN, v1ok \in BOOLEAN :
         LET got == get_openreview_client(v2ok, v1ok) IN
         /\ calls' = calls \o got.calls
         /\ api_version' = got.api_version
         /\ pc' = IF got.raised THEN "raised" ELSE "probe"
    /\ UNCHANGED <<accepted_only, p, submissions, used_pattern, i, paper_data, notes, n,
                   reviews, comments, meta_reviews, decision, all_data, result, outcome,
                   resolved, arg, ret,
                   logVars>>

\* ProbePattern without the break of crawl.py:108
ProbeNoBreak(answers) ==
    /\ pc = "probe"
    /\ \E raises \in BOOLEAN, fetched \in answers :
         LET found == ~raises /\ Len(fetched) > 0 IN
         /\ calls' = Append(calls, Call("invitation", patterns[p], ~raises,
                                        IF raises THEN <<>> ELSE fetched))
         /\ submissions' = IF raises THEN submissions ELSE fetched
         /\ used_pattern' = IF found THEN patterns[p] ELSE used_pattern
         /\ p' = IF p = Len(patterns) THEN p ELSE p + 1
         /\ pc' = IF p = Len(patterns) THEN "resolved" ELSE "probe"
    /\ UNCHANGED <<accepted_only, api_version, i, paper_data, notes, n, reviews, comments,
                   meta_reviews, decision, all_data, result, outcome, resolved, arg, ret,
                   logVars>>

\* One pass of the loop of crawl.py:97-112.  Both generations' calls
\* (lines 101 and 103) leave the fetched sequence in submissions.
ProbePattern(answers) ==
    /\ pc = "probe"
    /\ \E raises \in BOOLEAN, fetched \in answers :
         LET found == ~raises /\ Len(fetched) > 0 IN
         /\ calls' = Append(calls, Call("invitation", patterns[p], ~raises,
                                        IF raises THEN <<>> ELSE fetched))
         /\ submissions' = IF raises THEN submissions ELSE fetched
         /\ used_pattern' = IF found THEN patterns[p] ELSE used_pattern
         /\ p' = IF found \/ p = Len(patterns) THEN p ELSE p + 1
         /\ pc' = IF found \/ p = Len(patterns) THEN "resolved" ELSE "probe"
    /\ UNCHANGED <<accepted_only, api_version, i, paper_data, notes, n, reviews, comments,
                   meta_reviews, decision, all_data, result, outcome, resolved, arg, ret,
                   logVars>>

\* crawl.py:114-124
CheckSubmissions ==
    /\ pc = "resolved"
    /\ IF Len(submissions) = 0
       THEN /\ result' = <<>>
            /\ pc' = "done"
            /\ UNCHANGED <<all_data, i>>
       ELSE /\ all_data' = <<>>
            /\ i' = 1
            /\ pc' = "extract"
            /\ UNCHANGED result
    /\ UNCHANGED <<accepted_only, api_version, p, submissions, used_pattern, paper_data,
                   notes, n, reviews, comments, meta_reviews, decision, calls, outcome,
                   resolved, arg, ret,
                   logVars>>

\* crawl.py:127-152: paper.content.get raises on a content that is no mapping,
\* outside any try block
ExtractPaper ==
    /\ pc = "extract"
    /\ IF submissions[i].malformed
       THEN /\ pc' = "raised"
            /\ outcome' = Append(outcome, "extract_raised")
            /\ UNCHANGED paper_data
       ELSE /\ paper_data' = PaperData(submissions[i])
            /\ outcome' = Append(outcome, "none")
            /\ pc' = "fetch"
    /\ UNCHANGED <<accepted_only, api_version, p, submissions, used_pattern, i, notes, n,
                   reviews, comments, meta_reviews, decision, all_data, result, calls,
                   resolved, arg, ret,
                   logVars>>

\* FetchNotes with the fetch outside the try block
FetchNotesUnguarded(forums) ==
    /\ pc = "fetch"
    /\ \E raises \in BOOLEAN, shapes \in forums :
         /\ calls' = Append(calls, Call("forum", ForumId(submissions[i]), ~raises, <<>>))
         /\ IF raises
            THEN /\ outcome' = [outcome EXCEPT ![i] = "fetch_raised"]
                 /\ pc' = "raised"
                 /\ UNCHANGED <<notes, n, reviews, comments, meta_reviews, decision>>
            ELSE /\ notes' = MkNotes(shapes, submissions[i].id)
                 /\ n' = 1
                 /\ reviews' = <<>>
                 /\ comments' = <<>>
                 /\ meta_reviews' = <<>>
                 /\ decision' = None
                 /\ outcome' = [outcome EXCEPT ![i] = "fetched"]
                 /\ pc' = "notes"
    /\ UNCHANGED <<accepted_only, api_version, p, submissions, used_pattern, i, paper_data,
                   all_data, result, resolved, arg, ret,
                   logVars>>

\* FetchNotes fetching a second time after a first fetch raised
FetchNotesRetry(forums) ==
    /\ pc = "fetch"
    /\ \E raises \in BOOLEAN, shapes \in forums :
         LET retried == calls[Len(calls)].op = "forum" IN
         /\ calls' = Append(calls, Call("forum", ForumId(submissions[i]), ~raises, <<>>))
         /\ IF raises /\ ~retried
            THEN UNCHANGED <<paper_data, outcome, pc, notes, n, reviews, comments,
                             meta_reviews, decision>>
            ELSE IF raises
            THEN /\ paper_data' = WithDefaults(paper_data)
                 /\ outcome' = [outcome EXCEPT ![i] = "fetch_raised"]
                 /\ pc' = "filter"
                 /\ UNCHANGED <<notes, n, reviews, comments, meta_reviews, decision>>
            ELSE /\ notes' = MkNotes(shapes, submissions[i].id)
                 /\ n' = 1
                 /\ reviews' = <<>>
                 /\ comments' = <<>>
                 /\ meta_reviews' = <<>>
                 /\ decision' = None
                 /\ outcome' = [outcome EXCEPT ![i] = "fetched"]
                 /\ pc' = "notes"
                 /\ UNCHANGED paper_data
    /\ UNCHANGED <<accepted_only, api_version, p, submissions, used_pattern, i, all_data,
                   result, resolved, arg, ret,
                   logVars>>

\* crawl.py:154-163, and 235-241 when the fetch raises
FetchNotes(forums) ==
    /\ pc = "fetch"
    /\ \E raises \in BOOLEAN, shapes \in forums :
         /\ calls' = Append(calls, Call("forum", ForumId(submissions[i]), ~raises, <<>>))
         /\ IF raises
            THEN /\ paper_data' = WithDefaults(paper_data)
                 /\ outcome' = [outcome EXCEPT ![i] = "fetch_raised"]
                 /\ pc' = "filter"
                 /\ UNCHANGED <<notes, n, reviews, comments, meta_reviews, decision>>
            ELSE /\ notes' = MkNotes(shapes, submissions[i].id)
                 /\ n' = 1
                 /\ reviews' = <<>>
                 /\ comments' = <<>>
                 /\ meta_reviews' = <<>>
                 /\ decision' = None
                 /\ outcome' = [outcome EXCEPT ![i] = "fetched"]
                 /\ pc' = "notes"
                 /\ UNCHANGED paper_data
    /\ UNCHANGED <<accepted_only, api_version, p, submissions, used_pattern, i, all_data,
                   result, resolved, arg, ret,
                   logVars>>

\* ProcessNote without the skip of the submission's own note
ProcessNoteNoSkip ==
    /\ pc = "notes"
    /\ n <= Len(notes)
    /\ IF notes[n].malformed
       THEN /\ paper_data' = WithDefaults(paper_data)
            /\ outcome' = [outcome EXCEPT ![i] = "note_raised"]
            /\ pc' = "filter"
            /\ UNCHANGED <<n, reviews, comments, meta_reviews, decision>>
       ELSE LET acc == Categorize([reviews |-> reviews, comments |-> comments,
                                   meta_reviews |-> meta_reviews, decision |-> decision],
                                  notes[n]) IN
            /\ reviews' = acc.reviews
            /\ comments' = acc.comments
            /\ meta_reviews' = acc.meta_reviews
            /\ decision' = acc.decision
            /\ n' = n + 1
            /\ UNCHANGED <<paper_data, outcome, pc>>
    /\ UNCHANGED <<accepted_only, api_version, p, submissions, used_pattern, i, notes,
                   all_data, result, calls, resolved, arg, ret,
                   logVars>>

\* ProcessNote whose error handler stores what was classified so far
ProcessNotePartial ==
    /\ pc = "notes"
    /\ n <= Len(notes)
    /\ IF notes[n].id = submissions[i].id
       THEN /\ n' = n + 1
            /\ UNCHANGED <<reviews, comments, meta_reviews, decision, paper_data, outcome, pc>>
       ELSE IF notes[n].malformed
       THEN /\ paper_data' = WithResults(paper_data,
                                         [reviews |-> reviews, comments |-> comments,
                                          meta_reviews |-> meta_reviews,
                                          decision |-> decision])
            /\ outcome' = [outcome EXCEPT ![i] = "note_raised"]
            /\ pc' = "filter"
            /\ UNCHANGED <<n, reviews, comments, meta_reviews, decision>>
       ELSE LET acc == Categorize([reviews |-> reviews, comments |-> comments,
                                   meta_reviews |-> meta_reviews, decision |-> decision],
                                  notes[n]) IN
            /\ reviews' = acc.reviews
            /\ comments' = acc.comments
            /\ meta_reviews' = acc.meta_reviews
            /\ decision' = acc.decision
            /\ n' = n + 1
            /\ UNCHANGED <<paper_data, outcome, pc>>
    /\ UNCHANGED <<accepted_only, api_version, p, submissions, used_pattern, i, notes,
                   all_data, result, calls, resolved, arg, ret,
                   logVars>>

\* One pass of the loop of crawl.py:165-225, and 235-241 when the note's
\* content is no mapping (note.content.keys() or .items() raises)
ProcessNote ==
    /\ pc = "notes"
    /\ n <= Len(notes)
    /\ IF notes[n].id = submissions[i].id
       THEN /\ n' = n + 1
            /\ UNCHANGED <<reviews, comments, meta_reviews, decision, paper_data, outcome, pc>>
       ELSE IF notes[n].malformed
       THEN /\ paper_data' = WithDefaults(paper_data)
            /\ outcome' = [outcome EXCEPT ![i] = "note_raised"]
            /\ pc' = "filter"
            /\ UNCHANGED <<n, reviews, comments, meta_reviews, decision>>
       ELSE LET acc == Categorize([reviews |-> reviews, comments |-> comments,
                                   meta_reviews |-> meta_reviews, decision |-> decision],
                                  notes[n]) IN
            /\ reviews' = acc.reviews
            /\ comments' = acc.comments
            /\ meta_reviews' = acc.meta_reviews
            /\ decision' = acc.decision
            /\ n' = n + 1
            /\ UNCHANGED <<paper_data, outcome, pc>>
    /\ UNCHANGED <<accepted_only, api_version, p, submissions, used_pattern, i, notes,
                   all_data, result, calls, resolved, arg, ret,
                   logVars>>

\* crawl.py:227-233
FinishNotes ==
    /\ pc = "notes"
    /\ n > Len(notes)
    /\ paper_data' = WithResults(paper_data,
                                 [reviews |-> reviews, comments |-> comments,
                                  meta_reviews |-> meta_reviews, decision |-> decision])
    /\ outcome' = [outcome EXCEPT ![i] = "classified"]
    /\ pc' = "filter"
    /\ UNCHANGED <<accepted_only, api_version, p, submissions, used_pattern, i, notes, n,
                   reviews, comments, meta_reviews, decision, all_data, result, calls,
                   resolved, arg, ret,
                   logVars>>

\* FilterPaper ignoring accepted_only
FilterKeepsAll ==
    /\ pc = "filter"
    /\ all_data' = Append(all_data, paper_data)
    /\ resolved' = Append(resolved, paper_data)
    /\ pc' = "sleep"
    /\ UNCHANGED <<accepted_only, api_version, p, submissions, used_pattern, i, paper_data,
                   notes, n, reviews, comments, meta_reviews, decision, result, calls,
                   outcome, arg, ret,
                   logVars>>

\* FilterPaper where a dropped paper goes straight to the next pass of the loop
FilterSkipsSleep ==
    /\ pc = "filter"
    /\ resolved' = Append(resolved, paper_data)
    /\ IF accepted_only /\ ~is_accepted_paper(paper_data.decision)
       THEN /\ UNCHANGED all_data
            /\ IF i < Len(submissions)
               THEN i' = i + 1 /\ pc' = "extract" /\ UNCHANGED result
               ELSE result' = all_data /\ pc' = "done" /\ UNCHANGED i
       ELSE /\ all_data' = Append(all_data, paper_data)
            /\ pc' = "sleep"
            /\ UNCHANGED <<i, result>>
    /\ UNCHANGED <<accepted_only, api_version, p, submissions, used_pattern, paper_data,
                   notes, n, reviews, comments, meta_reviews, decision, calls,
                   outcome, arg, ret,
                   logVars>>

\* crawl.py:244-251
FilterPaper ==
    /\ pc = "filter"
    /\ all_data' = IF accepted_only
                   THEN (IF is_accepted_paper(paper_data.decision)
                         THEN Append(all_data, paper_data)
                         ELSE all_data)
                   ELSE Append(all_data, paper_data)
    /\ resolved' = Append(resolved, paper_data)
    /\ pc' = "sleep"
    /\ UNCHANGED <<accepted_only, api_version, p, submissions, used_pattern, i, paper_data,
                   notes, n, reviews, comments, meta_reviews, decision, result, calls,
                   outcome, arg, ret,
                   logVars>>

\* crawl.py:254, then the next pass of the loop of line 126 or the return of 261
Sleep ==
    /\ pc = "sleep"
    /\ calls' = Append(calls, Call("sleep", "0.3", TRUE, <<>>))
    /\ IF i < Len(submissions)
       THEN /\ i' = i + 1
            /\ pc' = "extract"
            /\ UNCHANGED result
       ELSE /\ result' = all_data
            /\ pc' = "done"
            /\ UNCHANGED i
    /\ UNCHANGED <<accepted_only, api_version, p, submissions, used_pattern, paper_data,
                   notes, n, reviews, comments, meta_reviews, decision, all_data, outcome,
                   resolved, arg, ret,
                   logVars>>

Crawl(answers, forums) ==
    \/ Negotiate
    \/ ProbePattern(answers)
    \/ CheckSubmissions
    \/ ExtractPaper
    \/ FetchNotes(forums)
    \/ ProcessNote
    \/ FinishNotes
    \/ FilterPaper
    \/ Sleep

\* The whole crawl: up to MaxSubs submissions of any shape, small forums
Next == Crawl({<<>>} \cup SubmissionLists(SubmissionShapes, MaxSubs), CrawlForums)

Spec == Init /\ [][Next]_vars

\* The crawl of one well-formed submission whose forum holds any notes
NextForum == Crawl({<<>>} \cup SubmissionLists({"v2", "v1"}, 1), AllForums)

SpecForum == Init /\ [][NextForum]_vars

(***************************************************************************)
(* The pure functions called directly, on inputs drawn from bounded sets.  *)
(***************************************************************************)
tAccept == <<"A", "c", "c", "e", "p", "t">>
tThen == <<" ", "t", "h", "e", "n", " ">>
tWithdrawn == <<"W", "i", "t", "h", "d", "r", "a", "w", "n">>
tPoster == <<" ", "(", "P", "o", "s", "t", "e", "r", ")">>
tDesk == <<"D", "e", "s", "k", " ">>
tRe == <<"R", "E">>
tJect == <<"j", "e", "c", "t">>
tStop == <<"S", "t", "o", "p">>
tPending == <<"P", "e", "n", "d", "i", "n", "g">>

Words == {tAccept, tThen, tWithdrawn, tPoster, tDesk, tRe, tJect, tStop, tPending}

\* the texts made of at most len words
RECURSIVE Texts(_)
Texts(len) ==
    IF len = 0 THEN {<<>>}
    ELSE Texts(len - 1) \cup {t \o w : t \in Texts(len - 1), w \in Words}

Decisions ==
    {None, EmptyDict} \cup {Scalar(t) : t \in Texts(MaxWords)} \cup {Env(t) : t \in Texts(1)}

ContentKeys ==
    {"rating", "confidence", "review", "recommendation", "decision", "comment", "rebuttal",
     "summary"}

KeyText(key) ==
    CASE key = "decision" -> tAcceptPoster
      [] key = "recommendation" -> tReject
      [] key = "rating" -> tEight
      [] OTHER -> tGood

\* one note per set of content keys, flat and enveloped
KeyedNotes ==
    {[id |-> NoteIds[1], hasInvitation |-> wrapped, invitation |-> "Official_Note",
      malformed |-> FALSE,
      content |-> [key \in keys |-> IF wrapped THEN Env(KeyText(key)) ELSE Scalar(KeyText(key))]] :
        keys \in SUBSET ContentKeys, wrapped \in BOOLEAN}

\* the values a content field may hold
FieldValues == {Scalar(tGood), Env(tGood), Env2(tGood), EmptyDict, EmptyStr}

\* one note per assignment of field values to a set of at most three keys
WrappedNotes ==
    {[id |-> NoteIds[1], hasInvitation |-> FALSE, invitation |-> "", malformed |-> FALSE,
      content |-> c] :
        c \in UNION {[keys -> FieldValues] : keys \in SUBSET {"title", "rating", "decision"}}}

InitFn ==
    /\ pc = "call"
    /\ accepted_only = FALSE
    /\ InitCrawl
    /\ arg \in {[fn |-> "is_accepted_paper", x |-> d] : d \in Decisions}
               \cup {[fn |-> "categorize", x |-> note] : note \in KeyedNotes}
               \cup {[fn |-> "extract_content", x |-> note] : note \in WrappedNotes}
    /\ ret = None
    /\ NoLogging

CallIsAccepted ==
    /\ pc = "call"
    /\ arg.fn = "is_accepted_paper"
    /\ ret' = is_accepted_paper(arg.x)
    /\ pc' = "returned"
    /\ UNCHANGED <<crawlVars, arg, logVars>>

\* one pass of the loop body of crawl.py:165-225 on fresh accumulators
CallCategorize ==
    /\ pc = "call"
    /\ arg.fn = "categorize"
    /\ ret' = Categorize(EmptyAcc, arg.x)
    /\ pc' = "returned"
    /\ UNCHANGED <<crawlVars, arg, logVars>>

\* crawl.py:178-187: the function builds a new mapping and leaves the note alone
CallExtractContent ==
    /\ pc = "call"
    /\ arg.fn = "extract_content"
    /\ ret' = extract_content(arg.x)
    /\ pc' = "returned"
    /\ UNCHANGED <<crawlVars, arg, logVars>>

NextFn == CallIsAccepted \/ CallCategorize \/ CallExtractContent

SpecFn == InitFn /\ [][NextFn]_vars

(***************************************************************************)
(* The logging set-up of src/utils/logger.py.  A handler is a record       *)
(* [class, level]; the logger's handler list is a sequence in the order    *)
(* addHandler built it.                                                    *)
(***************************************************************************)
\* the level names of logger.py:109
LevelNames == {"DEBUG", "INFO", "WARNING", "ERROR", "CRITICAL"}

\* the level arguments tried: the names, a lower-case one and an unknown one
LevelArgs == LevelNames \cup {"debug", "verbose"}

\* level.upper(), logger.py:111
Upper(level) == IF level = "debug" THEN "DEBUG" ELSE level

\* getattr(logging, name, logging.INFO), logger.py:111
LevelOf(name) ==
    CASE name = "DEBUG" -> 10
      [] name = "INFO" -> 20
      [] name = "WARNING" -> 30
      [] name = "ERROR" -> 40
      [] name = "CRITICAL" -> 50
      [] OTHER -> 20

Max(a, b) == IF a >= b THEN a ELSE b

\* logger.py:79-80
ConsoleHandler == [class |-> "StreamHandler", level |-> LevelOf("INFO")]

\* logger.py:91-97
FileHandler == [class |-> "RotatingFileHandler", level |-> LevelOf("DEBUG")]

\* isinstance(handler, logging.StreamHandler), logger.py:116 and 175:
\* logging.handlers.RotatingFileHandler derives from logging.StreamHandler
IsStreamHandler(h) == h.class \in {"StreamHandler", "RotatingFileHandler"}

\* isinstance(handler, logging.handlers.RotatingFileHandler), logger.py:181
IsRotatingFileHandler(h) == h.class = "RotatingFileHandler"

\* CrawlerLogger.__init__, logger.py:56-75: the handlers it leaves on the logger
CrawlerLogger(hs) == IF hs # <<>> THEN hs ELSE <<ConsoleHandler, FileHandler>>

\* CrawlerLogger.set_level, logger.py:111-121: the handlers after its loop
set_level(hs, level) ==
    [k \in 1..Len(hs) |->
        IF IsStreamHandler(hs[k])
        THEN [hs[k] EXCEPT !.level = Max(LevelOf(Upper(level)), LevelOf("INFO"))]
        ELSE [hs[k] EXCEPT !.level = LevelOf(Upper(level))]]

\* the list without its k-th element: removeHandler of the handler at k
Without(hs, k) == [j \in 1..(Len(hs) - 1) |-> IF j < k THEN hs[j] ELSE hs[j + 1]]

\* the loops of logger.py:174-176 and 180-182: a for loop over the very list
\* removeHandler shrinks, so the element after a removed one is passed over
RECURSIVE RemoveLoop(_, _, _)
RemoveLoop(hs, k, stream) ==
    IF k > Len(hs)
    THEN hs
    ELSE IF (IF stream THEN IsStreamHandler(hs[k]) ELSE IsRotatingFileHandler(hs[k]))
    THEN RemoveLoop(Without(hs, k), k + 1, stream)
    ELSE RemoveLoop(hs, k + 1, stream)

\* setup_logging, logger.py:163-184: the handlers it leaves on the logger
HandlersAfterSetup(hs, level, log_to_file, log_to_console) ==
    LET levelled == set_level(CrawlerLogger(hs), level)
        console == IF log_to_console THEN levelled ELSE RemoveLoop(levelled, 1, TRUE)
    IN IF log_to_file THEN console ELSE RemoveLoop(console, 1, FALSE)

\* setup_logging, logger.py:146-184
setup_logging(level, log_to_file, log_to_console) ==
    /\ handlers' = HandlersAfterSetup(handlers, level, log_to_file, log_to_console)
    /\ logger_level' = LevelOf(Upper(level))
    /\ last_setup' = [log_to_file |-> log_to_file, log_to_console |-> log_to_console]
    /\ last_level' = level

\* logger.py:290-291: importing the module calls setup_logging()
ImportLogger ==
    /\ pc = "import"
    /\ setup_logging("INFO", TRUE, TRUE)
    /\ pc' = "loaded"
    /\ UNCHANGED <<crawlVars, arg, ret, emitted>>

\* a later call of setup_logging, logger.py:146-184
SetupLogging ==
    /\ pc = "loaded"
    /\ \E level \in LevelArgs, log_to_file \in BOOLEAN, log_to_console \in BOOLEAN :
         setup_logging(level, log_to_file, log_to_console)
    /\ UNCHANGED <<pc, crawlVars, arg, ret, emitted>>

\* a call of set_level on the global CrawlerLogger, logger.py:105-121
SetLevel ==
    /\ pc = "loaded"
    /\ \E level \in LevelArgs :
         /\ logger_level' = LevelOf(Upper(level))
         /\ handlers' = set_level(handlers, level)
         /\ last_level' = level
    /\ UNCHANGED <<pc, crawlVars, arg, ret, last_setup, emitted>>

\* the handlers that write a record of the level: the logger passes it when
\* it is at or above the logger's level, a handler when at or above its own
Writers(level) ==
    IF LevelOf(level) < logger_level
    THEN {}
    ELSE {handlers[k].class : k \in {k \in 1..Len(handlers) : LevelOf(level) >= handlers[k].level}}

\* log_function_call, logger.py:187-208: one record at the level asked for
LogFunctionCall ==
    /\ pc = "loaded"
    /\ \E level \in LevelNames : emitted' = [level |-> level, classes |-> Writers(level)]
    /\ UNCHANGED <<pc, crawlVars, arg, ret, handlers, logger_level, last_setup, last_level>>

InitLog ==
    /\ pc = "import"
    /\ accepted_only = FALSE
    /\ InitCrawl
    /\ arg = None
    /\ ret = None
    /\ NoLogging

NextLog == ImportLogger \/ SetupLogging \/ SetLevel \/ LogFunctionCall

SpecLog == InitLog /\ [][NextLog]_vars

(***************************************************************************)
(* Properties.                                                             *)
(***************************************************************************)
IsDefault(r) ==
    /\ r.reviews = <<>>
    /\ r.num_reviews = 0
    /\ r.meta_reviews = <<>>
    /\ r.decision = None
    /\ r.comments = <<>>

CallsOf(ops) == SelectSeq(calls, LAMBDA c : c.op \in ops)

\* the paper loop is inside the try block or past it for submission i
InPaper == pc \in {"notes", "filter", "sleep"} \/ (pc = "done" /\ Len(submissions) > 0)

\* what a failed forum fetch leaves in every state
C1_State ==
    /\ \A j \in 1..Len(outcome) : outcome[j] = "fetch_raised" =>
          /\ (j = i /\ InPaper) => IsDefault(paper_data)
          /\ j <= Len(resolved) =>
                resolved[j].paper_id = submissions[j].id /\ IsDefault(resolved[j])
          /\ \A k \in 1..Len(all_data) :
                all_data[k].paper_id = submissions[j].id => IsDefault(all_data[k])
          /\ \A k \in 1..Len(result) :
                result[k].paper_id = submissions[j].id => IsDefault(result[k])
    /\ pc = "raised" => calls[Len(calls)].op # "forum"
    /\ (pc = "done" /\ Len(submissions) > 0) =>
          Len(CallsOf({"forum"})) = Len(submissions)

\* what the step of a failed forum fetch, and the step after its delay, do
C1_Step ==
    /\ (pc = "fetch" /\ pc' # "fetch" /\ ~calls'[Len(calls')].ok) =>
          pc' = "filter" /\ outcome'[i] = "fetch_raised"
    /\ (pc = "sleep" /\ pc' # "sleep" /\ outcome[i] = "fetch_raised") =>
          IF i < Len(submissions)
          THEN pc' = "extract" /\ i' = i + 1
          ELSE pc' = "done" /\ result' = all_data

\* C1: a submission whose forum fetch raises gets a record with reviews = [],
\* num_reviews = 0, meta_reviews = [], decision = None and comments = []; the
\* failed fetch never ends the crawl, which goes on to the next submission
\* and fetches the forum of every submission before it returns.
C1_FetchFailureIsolated == [](C1_State) /\ [][C1_Step]_vars

C1_Witness ==
    /\ pc = "done"
    /\ Len(submissions) = 2
    /\ outcome = <<"fetch_raised", "classified">>
    /\ ~accepted_only
    /\ Len(result) = 2
    /\ IsDefault(result[1])
    /\ result[2].decision = Scalar(tAcceptPoster)

\* C2: once a client is obtained the crawl never raises, whatever the notes
\* source answers and whatever the submission and note records hold.
C2_NeverRaisesWithClient == api_version # "" => pc # "raised"

\* The ordered classification rules, as the design states them
RuleClass(keys) ==
    IF keys \cap {"rating", "confidence", "review", "recommendation"} # {} THEN "Review"
    ELSE IF keys \cap {"decision", "recommendation"} # {} /\ "rating" \notin keys
    THEN "MetaReview"
    ELSE IF keys \cap {"comment", "rebuttal"} # {} THEN "Comment"
    ELSE "Unclassified"

\* C3: on every set of content keys one pass of the classification puts the
\* note in the reviews iff the rules say Review, in the meta-reviews iff they
\* say MetaReview, in the comments iff they say Comment, and nowhere iff they
\* say Unclassified; a content with rating is always a Review.
C3_ClassificationRules ==
    (pc = "returned" /\ arg.fn = "categorize") =>
        LET class == RuleClass(DOMAIN extract_content(arg.x)) IN
        /\ Len(ret.reviews) = (IF class = "Review" THEN 1 ELSE 0)
        /\ Len(ret.meta_reviews) = (IF class = "MetaReview" THEN 1 ELSE 0)
        /\ Len(ret.comments) = (IF class = "Comment" THEN 1 ELSE 0)
        /\ class = "Review" => ret.reviews[1].review_id = arg.x.id
        /\ class = "MetaReview" => ret.meta_reviews[1].id = arg.x.id
        /\ class = "Comment" => ret.comments[1].note_id = arg.x.id
        /\ "rating" \in DOMAIN arg.x.content =>
              Len(ret.reviews) = 1 /\ ret.meta_reviews = <<>> /\ ret.comments = <<>>

C3_Witness ==
    /\ pc = "returned"
    /\ arg.fn = "categorize"
    /\ DOMAIN arg.x.content = {"rating", "decision", "comment"}
    /\ Len(ret.reviews) = 1
    /\ ret.meta_reviews = <<>>

\* The keyword rule of the acceptance classifier, as the design states it
RejectionKeywords ==
    { <<"r", "e", "j", "e", "c", "t">>,
      <<"d", "e", "s", "k", " ", "r", "e", "j", "e", "c", "t">>,
      <<"w", "i", "t", "h", "d", "r", "a", "w">> }

AcceptanceKeywords ==
    { <<"a", "c", "c", "e", "p", "t">>, <<"o", "r", "a", "l">>,
      <<"p", "o", "s", "t", "e", "r">>, <<"s", "p", "o", "t", "l", "i", "g", "h", "t">>,
      <<"n", "o", "t", "a", "b", "l", "e">>, <<"t", "o", "p">>, <<"b", "e", "s", "t">> }

AcceptanceRule(d) ==
    /\ d \notin {None, EmptyStr, EmptyDict}
    /\ \A w \in RejectionKeywords : ~Contains(w, Lower(PyStr(d)))
    /\ \E w \in AcceptanceKeywords : Contains(w, Lower(PyStr(d)))

\* C4: is_accepted_paper returns true iff the decision is non-empty, its
\* lower-cased text holds no rejection keyword and holds an acceptance
\* keyword: "Accept (Poster)" is accepted; "Reject", "Accept then Withdrawn",
\* the empty string and an absent decision are not.
C4_AcceptanceRule ==
    (pc = "returned" /\ arg.fn = "is_accepted_paper") =>
        /\ ret = AcceptanceRule(arg.x)
        /\ arg.x = Scalar(tAcceptPoster) => ret = TRUE
        /\ arg.x \in {Scalar(tReject), EmptyStr, None} => ret = FALSE
        /\ ( /\ \E w \in RejectionKeywords : Contains(w, Lower(PyStr(arg.x)))
             /\ \E w \in AcceptanceKeywords : Contains(w, Lower(PyStr(arg.x))) ) => ret = FALSE

C4_Witness ==
    /\ pc = "returned"
    /\ arg.fn = "is_accepted_paper"
    /\ arg.x = Scalar(tAccept \o tThen \o tWithdrawn)
    /\ ret = FALSE

\* a candidate's fetch neither raised nor came back empty
Found(c) == c.ok /\ Len(c.answer) > 0

\* C5: the candidates are probed in their fixed order; the first one found
\* non-empty ends the probing, its collection is the submissions processed
\* and it is the pattern used; a raising candidate counts as an empty one;
\* when none is found the crawl returns an empty sequence, without raising
\* and without any fetch by forum.
C5_PatternResolution ==
    LET probes == CallsOf({"invitation"}) IN
    /\ Len(probes) <= Len(patterns)
    /\ \A j \in 1..Len(probes) : probes[j].arg = patterns[j]
    /\ \A j \in 1..Len(probes) : Found(probes[j]) =>
          /\ j = Len(probes)
          /\ pc # "probe"
          /\ submissions = probes[j].answer
          /\ used_pattern = patterns[j]
    /\ pc = "probe" => Len(probes) = p - 1
    /\ (pc \notin {"start", "probe"} /\ api_version # "") =>
          /\ Len(probes) >= 1
          /\ (\A j \in 1..Len(probes) : ~Found(probes[j])) =>
                /\ Len(probes) = Len(patterns)
                /\ submissions = <<>>
                /\ used_pattern = ""
                /\ pc \in {"resolved", "done"}
                /\ result = <<>>
                /\ CallsOf({"forum"}) = <<>>
    /\ \A j \in 1..Len(CallsOf({"forum"})) :
          CallsOf({"forum"})[j].arg = ForumId(probes[Len(probes)].answer[j])

C5_Witness ==
    LET probes == CallsOf({"invitation"}) IN
    /\ pc = "done"
    /\ Len(probes) = 2
    /\ ~probes[1].ok
    /\ Len(probes[2].answer) = 2
    /\ used_pattern = patterns[2]
    /\ ~accepted_only
    /\ Len(result) = 2
    /\ result[1].paper_id = probes[2].answer[1].id
    /\ result[2].paper_id = probes[2].answer[2].id

\* the accepted-only filter keeps the record
Kept(r) == ~accepted_only \/ AcceptanceRule(r.decision)

\* C6: the output is the sequence of the submissions' records, one per
\* submission in source order, without those the accepted-only filter drops:
\* every submission when accepted_only is false, exactly the accepted ones
\* when it is true.
C6_OrderedSubsequence ==
    /\ Len(resolved) <= Len(submissions)
    /\ \A j \in 1..Len(resolved) : resolved[j].paper_id = submissions[j].id
    /\ all_data = SelectSeq(resolved, Kept)
    /\ pc = "done" =>
          /\ result = all_data
          /\ Len(resolved) = Len(submissions)
          /\ ~accepted_only => Len(result) = Len(submissions)

C6_Witness ==
    /\ pc = "done"
    /\ accepted_only
    /\ Len(submissions) = 2
    /\ resolved[1].decision = Scalar(tAcceptPoster)
    /\ resolved[2].decision = Scalar(tReject)
    /\ Len(result) = 1
    /\ result[1].paper_id = submissions[1].id

\* the class the rules give a note of the forum being processed
NoteClass(note) ==
    IF note.id = submissions[i].id THEN "Submission"
    ELSE RuleClass(DOMAIN note.content)

NotesOfClass(class) == SelectSeq(notes, LAMBDA note : NoteClass(note) = class)

\* the try block of submission i ended without an error, and paper_data,
\* notes and the accumulators are still those of submission i
Classified == i >= 1 /\ Len(outcome) = i /\ outcome[i] = "classified"

\* C7: when a forum is processed without error the record's decision is the
\* decision field of the last note, in source order, that the rules class as
\* MetaReview, which is the last element of meta_reviews; with no such note
\* the decision is None.
C7_LastMetaReviewDecides ==
    Classified =>
        LET metas == NotesOfClass("MetaReview") IN
        /\ Len(paper_data.meta_reviews) = Len(metas)
        /\ IF metas = <<>>
           THEN paper_data.decision = None
           ELSE /\ paper_data.decision = extract_content(metas[Len(metas)])["decision"]
                /\ paper_data.decision = paper_data.meta_reviews[Len(metas)].decision
                /\ paper_data.meta_reviews[Len(metas)].id = metas[Len(metas)].id
        /\ pc \in {"sleep", "done"} => resolved[i] = paper_data

C7_Witness ==
    /\ Classified
    /\ pc = "done"
    /\ Len(NotesOfClass("MetaReview")) = 2
    /\ paper_data.meta_reviews[1].decision = Scalar(tAcceptPoster)
    /\ paper_data.decision = Scalar(tReject)
    /\ accepted_only
    /\ result = <<>>

\* C8: when a forum is processed without error, reviews, meta_reviews and
\* comments are the records of the forum's notes other than the submission's
\* own note that the rules class as Review, MetaReview and Comment, each in
\* source order; no note is in two of them, the submission's own note is in
\* none, and num_reviews is the length of reviews.
C8_NotesPartitioned ==
    Classified =>
        LET revs == NotesOfClass("Review")
            metas == NotesOfClass("MetaReview")
            coms == NotesOfClass("Comment")
            revIds == {paper_data.reviews[k].review_id : k \in 1..Len(paper_data.reviews)}
            metaIds == {paper_data.meta_reviews[k].id : k \in 1..Len(paper_data.meta_reviews)}
            comIds == {paper_data.comments[k].note_id : k \in 1..Len(paper_data.comments)}
        IN
        /\ paper_data.reviews =
              [k \in 1..Len(revs) |-> review_data(revs[k], extract_content(revs[k]))]
        /\ paper_data.meta_reviews =
              [k \in 1..Len(metas) |-> meta_review_data(metas[k], extract_content(metas[k]))]
        /\ paper_data.comments =
              [k \in 1..Len(coms) |-> comment_data(coms[k], extract_content(coms[k]))]
        /\ revIds \cap metaIds = {} /\ revIds \cap comIds = {} /\ metaIds \cap comIds = {}
        /\ submissions[i].id \notin revIds \cup metaIds \cup comIds
        /\ paper_data.num_reviews = Len(paper_data.reviews)
        /\ paper_data.num_reviews = Len(revs)

C8_Witness ==
    /\ Classified
    /\ pc = "done"
    /\ Len(notes) = 2
    /\ notes[1].id = submissions[i].id
    /\ "rating" \in DOMAIN notes[1].content
    /\ "rating" \in DOMAIN notes[2].content
    /\ Len(result) = 1
    /\ result[1].num_reviews = 1
    /\ result[1].reviews[1].review_id = notes[2].id

\* C9: the newer generation is attempted first and is returned, tagged v2,
\* iff that attempt succeeds; when it fails the older generation is attempted
\* once and returned, tagged v1; when both fail the crawl ends raised, with
\* no fetch issued and no record returned.
C9_ClientNegotiation ==
    pc # "start" =>
        LET clients == CallsOf({"client"}) IN
        /\ Len(clients) >= 1
        /\ \A k \in 1..Len(calls) : calls[k].op = "client" <=> k <= Len(clients)
        /\ clients[1].arg = "v2"
        /\ clients[1].ok <=> api_version = "v2"
        /\ clients[1].ok => Len(clients) = 1
        /\ ~clients[1].ok =>
              /\ Len(clients) = 2
              /\ clients[2].arg = "v1"
              /\ clients[2].ok <=> api_version = "v1"
              /\ ~clients[2].ok =>
                    /\ pc = "raised"
                    /\ Len(calls) = 2
                    /\ all_data = <<>>
                    /\ result = <<>>

C9_Witness ==
    /\ pc = "done"
    /\ api_version = "v1"
    /\ Len(CallsOf({"client"})) = 2
    /\ Len(result) = 2

\* C10: the calls to the platform's forums and to the delay alternate, forum
\* fetch first: each processed submission has one delay, after its own forum
\* fetch and before the next one's, whether its notes were fetched, the fetch
\* raised, or the filter kept or dropped it; a completed crawl of n
\* submissions has made n delays.
C10_OneDelayPerPaper ==
    LET steps == CallsOf({"forum", "sleep"})
        sleeps == Len(CallsOf({"sleep"}))
        fetches == Len(CallsOf({"forum"}))
    IN
    /\ \A k \in 1..Len(steps) :
          /\ steps[k].op = (IF k % 2 = 1 THEN "forum" ELSE "sleep")
          /\ k % 2 = 1 => steps[k].arg = ForumId(submissions[(k + 1) \div 2])
    /\ pc \in {"extract", "fetch"} => fetches = i - 1 /\ sleeps = i - 1
    /\ pc \in {"notes", "filter", "sleep"} => fetches = i /\ sleeps = i - 1
    /\ pc = "done" => fetches = Len(submissions) /\ sleeps = Len(submissions)

C10_Witness ==
    /\ pc = "done"
    /\ accepted_only
    /\ Len(submissions) = 2
    /\ outcome = <<"fetch_raised", "classified">>
    /\ Len(result) = 1
    /\ Len(CallsOf({"sleep"})) = 2

\* the number of calls of kind op issued with argument a
Times(op, a) == Len(SelectSeq(calls, LAMBDA c : c.op = op /\ c.arg = a))

\* the submissions whose try block has been entered and has issued its fetch
Fetched == IF pc \in {"notes", "filter", "sleep", "done"} THEN i ELSE i - 1

\* what the history of calls shows of retries
C11_State ==
    /\ \A k \in 1..Len(patterns) : Times("invitation", patterns[k]) <= 1
    /\ \A v \in {"v2", "v1"} : Times("client", v) <= 1
    /\ Times("client", "v1") = 1 =>
          Times("client", "v2") = 1 /\ ~CallsOf({"client"})[1].ok
    /\ \A j \in 1..Len(submissions) :
          Times("forum", ForumId(submissions[j])) = (IF j <= Fetched THEN 1 ELSE 0)
    /\ \A j \in 1..Len(outcome) : outcome[j] = "fetch_raised" =>
          /\ ~CallsOf({"forum"})[j].ok
          /\ CallsOf({"forum"})[j].arg = ForumId(submissions[j])
          /\ \A k \in 1..Len(CallsOf({"forum"})) :
                k # j => CallsOf({"forum"})[k].arg # ForumId(submissions[j])

\* a fetch that raised is not issued again: the probe moves to the next
\* candidate or ends, the paper moves to its filter
C11_Step ==
    /\ (pc = "probe" /\ calls' # calls /\ ~calls'[Len(calls')].ok) =>
          (pc' = "probe" /\ p' = p + 1) \/ (pc' = "resolved" /\ p = Len(patterns))
    /\ (pc = "fetch" /\ calls' # calls) =>
          /\ pc' \in {"notes", "filter"}
          /\ i' = i
          /\ ~calls'[Len(calls')].ok => pc' = "filter"
    /\ (pc = "sleep" /\ pc' = "extract") => i' = i + 1

\* C11: nothing is retried but the client construction's one fallback: each
\* candidate invitation pattern is fetched at most once, each submission's
\* forum is fetched exactly once, also when that fetch raises, and a failed
\* forum fetch ends the work on that paper only.
C11_NoRetry == [](C11_State) /\ [][C11_Step]_vars

C11_Witness ==
    /\ pc = "done"
    /\ Len(submissions) = 2
    /\ ~CallsOf({"invitation"})[1].ok
    /\ Len(CallsOf({"invitation"})) = 2
    /\ outcome = <<"fetch_raised", "classified">>
    /\ ~CallsOf({"forum"})[1].ok
    /\ CallsOf({"forum"})[2].ok
    /\ Len(CallsOf({"forum"})) = 2

\* a value that is a mapping holding the key 'value'
IsEnvelope(v) == v.k \in {"env", "env2"}

\* what the normalised mapping holds for the note the function was given
C12_State ==
    (pc = "returned" /\ arg.fn = "extract_content") =>
        LET content == arg.x.content IN
        /\ DOMAIN ret = DOMAIN content
        /\ \A key \in DOMAIN content :
              /\ content[key].k = "env" => ret[key] = Scalar(content[key].v)
              /\ content[key].k = "env2" => ret[key] = Env(content[key].v)
              /\ ~IsEnvelope(content[key]) => ret[key] = content[key]
        /\ (\A key \in DOMAIN content : ~IsEnvelope(content[key])) => ret = content

\* the call leaves the note it was given as it was
C12_Step == (pc = "call" /\ arg.fn = "extract_content") => arg' = arg

\* C12: content normalisation returns a new mapping with the note's key set;
\* a value that is a mapping holding 'value' is replaced by that inner value,
\* one level only, so a doubly wrapped value keeps its inner envelope; every
\* other value is kept; the note's content is left as it was; an already flat
\* mapping comes back equal.
C12_ExtractContent == [](C12_State) /\ [][C12_Step]_vars

C12_Witness ==
    /\ pc = "returned"
    /\ arg.fn = "extract_content"
    /\ DOMAIN arg.x.content = {"title", "rating", "decision"}
    /\ arg.x.content["title"] = Env2(tGood)
    /\ arg.x.content["rating"] = Env(tGood)
    /\ arg.x.content["decision"] = EmptyDict
    /\ ret["title"] = Env(tGood)
    /\ ret["rating"] = Scalar(tGood)
    /\ ret["decision"] = EmptyDict

\* the record of submission i wherever it has been stored
RecordsOf(id) ==
    {all_data[k] : k \in {k \in 1..Len(all_data) : all_data[k].paper_id = id}}
        \cup {result[k] : k \in {k \in 1..Len(result) : result[k].paper_id = id}}
        \cup {resolved[k] : k \in {k \in 1..Len(resolved) : resolved[k].paper_id = id}}

\* the record holds what the whole list of notes classifies to
IsFull(r) ==
    LET revs == NotesOfClass("Review")
        metas == NotesOfClass("MetaReview")
        coms == NotesOfClass("Comment")
    IN
    /\ \A k \in 1..Len(notes) : ~notes[k].malformed
    /\ r.reviews = [k \in 1..Len(revs) |-> review_data(revs[k], extract_content(revs[k]))]
    /\ r.meta_reviews =
          [k \in 1..Len(metas) |-> meta_review_data(metas[k], extract_content(metas[k]))]
    /\ r.comments = [k \in 1..Len(coms) |-> comment_data(coms[k], extract_content(coms[k]))]
    /\ r.num_reviews = Len(revs)

\* C13: classification of a paper is all-or-nothing: when the processing of
\* a note raises after earlier notes were classified, the record has reviews,
\* meta_reviews and comments empty, num_reviews 0 and decision None, and the
\* crawl goes on to its end; no stored record holds the classification of a
\* prefix of the notes only.
C13_AllOrNothing ==
    /\ (i >= 1 /\ Len(outcome) = i /\ outcome[i] = "note_raised") =>
          /\ pc \in {"filter", "sleep", "done"}
          /\ IsDefault(paper_data)
          /\ \A r \in RecordsOf(submissions[i].id) : IsDefault(r)
          /\ pc = "done" => result = IF accepted_only THEN <<>> ELSE <<paper_data>>
    /\ i >= 1 => \A r \in RecordsOf(submissions[i].id) : IsDefault(r) \/ IsFull(r)

C13_Witness ==
    /\ pc = "done"
    /\ ~accepted_only
    /\ outcome = <<"note_raised">>
    /\ Len(notes) = 2
    /\ "rating" \in DOMAIN notes[1].content
    /\ notes[2].malformed
    /\ Len(reviews) = 1
    /\ Len(result) = 1
    /\ IsDefault(result[1])

\* the submissions whose try block ended in its error handler
Failed == {j \in 1..Len(outcome) : outcome[j] \in {"fetch_raised", "note_raised"}}

\* C16: with accepted_only, a submission whose forum fetch or note
\* processing raises is never in the output: its decision is reset to None,
\* which the acceptance test rejects, and the failure does not end the crawl.
C16_FailedNeverAccepted ==
    /\ ~is_accepted_paper(None)
    /\ \A j \in Failed :
          /\ (j = i /\ InPaper) => paper_data.decision = None
          /\ j <= Len(resolved) => resolved[j].decision = None
          /\ accepted_only =>
                /\ \A k \in 1..Len(all_data) : all_data[k].paper_id # submissions[j].id
                /\ \A k \in 1..Len(result) : result[k].paper_id # submissions[j].id
    /\ (pc = "raised" /\ Len(outcome) >= 1) => Len(outcome) \notin Failed
    /\ (pc = "done" /\ Len(submissions) > 0) => Len(resolved) = Len(submissions)

C16_Witness ==
    /\ pc = "done"
    /\ accepted_only
    /\ Len(submissions) = 2
    /\ outcome = <<"classified", "note_raised">>
    /\ resolved[1].decision = Scalar(tAcceptPoster)
    /\ Len(result) = 1
    /\ result[1].paper_id = submissions[1].id

\* the keys of the review rule
ReviewKeys == {"rating", "confidence", "review", "recommendation"}

\* C17: a note classified as MetaReview holds 'decision' and none of rating,
\* confidence, review, recommendation, so the MetaReview record's decision and
\* the paper's decision are the note's 'decision' field and never its
\* 'recommendation'; a note holding 'decision' together with one of those
\* four keys never sets the paper's decision.
C17_MetaReviewDecisionField ==
    (pc = "returned" /\ arg.fn = "categorize") =>
        LET keys == DOMAIN arg.x.content
            field == extract_content(arg.x)
        IN
        /\ Len(ret.meta_reviews) <= 1
        /\ Len(ret.meta_reviews) = 1 =>
              /\ "decision" \in keys
              /\ keys \cap ReviewKeys = {}
              /\ ret.meta_reviews[1].decision = field["decision"]
              /\ ret.decision = field["decision"]
              /\ ret.decision # Scalar(KeyText("recommendation"))
        /\ ret.decision # None => Len(ret.meta_reviews) = 1
        /\ ("decision" \in keys /\ keys \cap ReviewKeys # {}) =>
              ret.decision = None /\ ret.meta_reviews = <<>>

C17_Witness ==
    /\ pc = "returned"
    /\ arg.fn = "categorize"
    /\ DOMAIN arg.x.content = {"decision", "comment"}
    /\ arg.x.content["decision"].k = "env"
    /\ Len(ret.meta_reviews) = 1
    /\ ret.decision = Scalar(KeyText("decision"))
    /\ ret.comments = <<>>

\* the handlers of a class attached to the logger
Attached(class) == SelectSeq(handlers, LAMBDA h : h.class = class)

\* C14: after any sequence of setup_logging calls, the import's included,
\* the logger has a console handler iff the latest call's log_to_console was
\* true and a rotating file handler iff its log_to_file was true, and never
\* more than one handler of either kind.
C14_HandlersReflectFlags ==
    pc = "loaded" =>
        /\ Len(Attached("StreamHandler")) = (IF last_setup.log_to_console THEN 1 ELSE 0)
        /\ Len(Attached("RotatingFileHandler")) = (IF last_setup.log_to_file THEN 1 ELSE 0)

\* C15: after set_level(L) with a valid level name L, the file handler's
\* level is L and the console handler's level is the higher of L and INFO.
C15_SetLevelLevels ==
    (pc = "loaded" /\ Upper(last_level) \in LevelNames) =>
        \A k \in 1..Len(handlers) :
            /\ handlers[k].class = "RotatingFileHandler" =>
                  handlers[k].level = LevelOf(Upper(last_level))
            /\ handlers[k].class = "StreamHandler" =>
                  handlers[k].level = Max(LevelOf(Upper(last_level)), LevelOf("INFO"))

====
